---- MODULE Spec2Model ----
(***************************************************************************)
(* The example programs and integration tests of user-notify, as flows     *)
(* over the notification manager.  A text is a sequence of one-character   *)
(* strings; a user-info map (HashMap<String, String>) is a set of          *)
(* <<key, value>> pairs with one pair per key.                             *)
(***************************************************************************)
EXTENDS Integers, Sequences, FiniteSets, TLC

VARIABLES
    platform,       \* target_os the program was built for
    env,            \* TEST_BUNDLE_ID in the environment of the process
    running,        \* the flows of this process
    pc,             \* pc[f]: index of the next step of f's program
    st,             \* st[f]: what f's main task is doing
    task,           \* task[f]: the task f spawned, if any
    input,          \* input[f]: what f read to choose its bundle id
    bundle,         \* bundle[f]: bundle id f's manager was created with
    registered,     \* registered[f]: category ids registered on f's manager
    categories,     \* category ids the notification centre holds for the bundle id
    elapsed,        \* elapsed[f]: seconds f slept since its last manager operation returned
    responses,      \* responses[f]: times the response callback of f was invoked
    has_permission, \* has_permission[f]: the local of test_basic_notification
    active,         \* active[f]: the handles get_active_notifications returned
    hist,           \* hist[f]: the manager operations f issued, in order
    log,            \* log[f]: the branches f reported
    delivered       \* notifications delivered to the notification centre

vars == <<platform, env, running, pc, st, task, input, bundle, registered,
          categories, elapsed, responses, has_permission, active, hist, log, delivered>>

(***************************************************************************)
(* Bounds of the model.                                                    *)
(***************************************************************************)
MaxLineLen == 2     \* characters of a stdin line before its terminator
MaxForeign == 1     \* notifications already in the centre at start
MaxResponses == 2   \* invocations of a flow's response callback

(***************************************************************************)
(* Text: str::trim, String::is_empty, format!.                             *)
(***************************************************************************)
Whitespace == {" ", "\n", "\r", "\t"}

RECURSIVE TrimStart(_)
TrimStart(s) ==
    IF s = <<>> THEN <<>>
    ELSE IF Head(s) \in Whitespace THEN TrimStart(Tail(s)) ELSE s

RECURSIVE TrimEnd(_)
TrimEnd(s) ==
    IF s = <<>> THEN <<>>
    ELSE IF s[Len(s)] \in Whitespace THEN TrimEnd(SubSeq(s, 1, Len(s) - 1)) ELSE s

TrimStartOnly(s) == TrimStart(s)

Trim(s) == TrimEnd(TrimStart(s))

is_empty(s) == Len(s) = 0

(***************************************************************************)
(* HashMap<String, String>.                                                *)
(***************************************************************************)
EmptyMap == {}

insert(m, k, v) == {p \in m : p[1] # k} \cup {<<k, v>>}

contains_key(m, k) == \E p \in m : p[1] = k

get(m, k) == IF contains_key(m, k) THEN (CHOOSE p \in m : p[1] = k)[2] ELSE "None"

(***************************************************************************)
(* Program constants.                                                      *)
(***************************************************************************)
ACTION_CATEGORY_ID == "app.category.action"
TEXT_INPUT_CATEGORY_ID == "app.category.textinput"

DEFAULT_BUNDLE_ID_test == <<"a", "i", ".", "g", "e", "t", "y">>
DEFAULT_BUNDLE_ID_tests == <<"a", "i", ".", "g", "e", "t", "y">>
DEFAULT_BUNDLE_ID_basic ==
    DEFAULT_BUNDLE_ID_test \o <<".", "t", "e", "s", "t", ".", "b", "a", "s", "i", "c">>
DEFAULT_BUNDLE_ID_active ==
    DEFAULT_BUNDLE_ID_test \o <<".", "t", "e", "s", "t", ".", "a", "c", "t", "i", "v", "e">>
DEFAULT_BUNDLE_ID_permission ==
    DEFAULT_BUNDLE_ID_test
        \o <<".", "t", "e", "s", "t", ".", "p", "e", "r", "m", "i", "s", "s", "i", "o", "n">>
DEFAULT_BUNDLE_ID_interactive ==
    DEFAULT_BUNDLE_ID_test
        \o <<".", "t", "e", "s", "t", ".", "i", "n", "t", "e", "r", "a", "c", "t", "i", "v", "e">>
DEFAULT_BUNDLE_ID_full ==
    DEFAULT_BUNDLE_ID_test \o <<".", "t", "e", "s", "t", ".", "f", "u", "l", "l">>

(***************************************************************************)
(* Categories.                                                             *)
(***************************************************************************)
Action(id) == [kind |-> "Action", identifier |-> id]
TextInputAction(id) == [kind |-> "TextInputAction", identifier |-> id]
NotificationCategory(id, actions) == [identifier |-> id, actions |-> actions]

ActionCategory3 ==
    NotificationCategory(ACTION_CATEGORY_ID,
        << Action(ACTION_CATEGORY_ID \o ".button.submit"),
           Action(ACTION_CATEGORY_ID \o ".button.cancel"),
           Action(ACTION_CATEGORY_ID \o ".button.detail") >>)

ActionCategory2 ==
    NotificationCategory(ACTION_CATEGORY_ID,
        << Action(ACTION_CATEGORY_ID \o ".button.submit"),
           Action(ACTION_CATEGORY_ID \o ".button.cancel") >>)

TextInputCategory ==
    NotificationCategory(TEXT_INPUT_CATEGORY_ID,
        << TextInputAction(TEXT_INPUT_CATEGORY_ID \o ".button.send") >>)

\* examples/test.rs, tests/integration_tests.rs, test_full_integration
create_test_categories == << ActionCategory3, TextInputCategory >>
\* test_basic_notification, test_active_notifications
create_test_categories_action3 == << ActionCategory3 >>
\* test_permission_request
create_test_categories_action2 == << ActionCategory2 >>
\* test_interactive_notification
create_test_categories_interactive == << ActionCategory2, TextInputCategory >>

CategoryIds(cats) == {cats[i].identifier : i \in 1..Len(cats)}

(***************************************************************************)
(* The steps of a flow.  A flow's program is the sequence of the steps of  *)
(* its function body, in source order.                                     *)
(*   guard    "macos": compiled only under cfg(target_os = "macos");       *)
(*            "no_permission": inside `if !has_permission`                 *)
(*   spawned  the call is made in a task given to tokio::spawn, which the  *)
(*            main task awaits through the JoinHandle                      *)
(*   onErr    "propagate": the `?` operator / return Err;                  *)
(*            "continue": the error is reported and the flow goes on       *)
(*   onDenied what Ok(false) from the permission request does              *)
(*   check    what the flow does with the enumerated handles               *)
(***************************************************************************)
Step(op) ==
    [op |-> op, guard |-> "always", spawned |-> FALSE, onErr |-> "propagate",
     onDenied |-> "continue", source |-> "none", default |-> <<>>,
     cats |-> <<>>, cat |-> "", info |-> EmptyMap, secs |-> 0,
     check |-> "none", key |-> "", value |-> ""]

CreateFromEnv(default) == [Step("create") EXCEPT !.source = "env", !.default = default]
CreateFromStdin(default) == [Step("create") EXCEPT !.source = "stdin", !.default = default]
RegisterStep(cats) == [Step("register") EXCEPT !.cats = cats]
SendStep(cat, info) == [Step("send") EXCEPT !.cat = cat, !.info = info]
SleepStep(secs) == [Step("sleep") EXCEPT !.secs = secs]
GetActiveStep == Step("get_active")
VerifyStep(check, key, value) ==
    [Step("verify") EXCEPT !.check = check, !.key = key, !.value = value]
\* #[cfg(target_os = "macos")] { match/if-let on the request: Err is reported }
AskMacosNonFatal == [Step("ask_perm") EXCEPT !.guard = "macos", !.onErr = "continue"]
\* #[cfg(target_os = "macos")] { ... Err(err) => return Err(err.into()) }
AskMacosFatal == [Step("ask_perm") EXCEPT !.guard = "macos"]

\* examples/test.rs
Prog_example_test ==
    << CreateFromStdin(DEFAULT_BUNDLE_ID_test),
       RegisterStep(create_test_categories),
       [AskMacosNonFatal EXCEPT !.spawned = TRUE],
       SendStep(ACTION_CATEGORY_ID, EmptyMap),
       [SendStep(TEXT_INPUT_CATEGORY_ID, insert(EmptyMap, "hey", "hi"))
            EXCEPT !.spawned = TRUE],
       SleepStep(2),
       GetActiveStep,
       VerifyStep("assert_key", "hey", ""),
       Step("ctrl_c") >>

\* examples/test_basic_notification
Prog_example_basic ==
    << CreateFromEnv(DEFAULT_BUNDLE_ID_basic),
       RegisterStep(create_test_categories_action3),
       Step("query_perm"),
       [Step("ask_perm") EXCEPT !.guard = "no_permission", !.onDenied = "return_ok"],
       SendStep(ACTION_CATEGORY_ID, EmptyMap),
       SleepStep(3),
       SendStep(ACTION_CATEGORY_ID, EmptyMap),
       SleepStep(3),
       SendStep(ACTION_CATEGORY_ID, EmptyMap),
       SleepStep(10) >>

\* examples/test_active_notifications
Prog_example_active ==
    << CreateFromEnv(DEFAULT_BUNDLE_ID_active),
       RegisterStep(create_test_categories_action3),
       SendStep(ACTION_CATEGORY_ID,
           insert(insert(EmptyMap, "notification_id", "first"), "test_type", "active_test")),
       SleepStep(2),
       SendStep(ACTION_CATEGORY_ID,
           insert(insert(EmptyMap, "notification_id", "second"), "test_type", "active_test")),
       SleepStep(3),
       GetActiveStep,
       VerifyStep("warn_value", "test_type", "active_test") >>

\* examples/test_permission_request
Prog_example_permission ==
    << CreateFromEnv(DEFAULT_BUNDLE_ID_permission),
       RegisterStep(create_test_categories_action2),
       AskMacosFatal >>

\* examples/test_interactive_notification
Prog_example_interactive ==
    << CreateFromEnv(DEFAULT_BUNDLE_ID_interactive),
       RegisterStep(create_test_categories_interactive),
       SendStep(ACTION_CATEGORY_ID, EmptyMap),
       SleepStep(3),
       SendStep(TEXT_INPUT_CATEGORY_ID,
           insert(insert(EmptyMap, "test_type", "text_input"), "timestamp", "now")),
       SleepStep(30) >>

\* examples/test_full_integration
Prog_example_full ==
    << CreateFromEnv(DEFAULT_BUNDLE_ID_full),
       RegisterStep(create_test_categories),
       AskMacosNonFatal,
       SendStep(ACTION_CATEGORY_ID, EmptyMap),
       SleepStep(2),
       SendStep(TEXT_INPUT_CATEGORY_ID,
           insert(insert(insert(EmptyMap, "integration_test", "full_flow"),
                         "step", "4"), "timestamp", "now")),
       SleepStep(3),
       GetActiveStep,
       VerifyStep("warn_key", "integration_test", ""),
       SendStep(ACTION_CATEGORY_ID, EmptyMap),
       SleepStep(30) >>

\* tests/integration_tests.rs
Prog_test_notification_manager_creation ==
    << CreateFromEnv(DEFAULT_BUNDLE_ID_tests) >>

Prog_test_category_registration ==
    << CreateFromEnv(DEFAULT_BUNDLE_ID_tests),
       RegisterStep(create_test_categories) >>

Prog_test_permission_request ==
    << CreateFromEnv(DEFAULT_BUNDLE_ID_tests),
       RegisterStep(create_test_categories),
       AskMacosNonFatal >>

Prog_test_basic_notification_send ==
    << CreateFromEnv(DEFAULT_BUNDLE_ID_tests),
       RegisterStep(create_test_categories),
       SendStep(ACTION_CATEGORY_ID, EmptyMap) >>

Prog_test_notification_with_user_info ==
    << CreateFromEnv(DEFAULT_BUNDLE_ID_tests),
       RegisterStep(create_test_categories),
       SendStep(TEXT_INPUT_CATEGORY_ID,
           insert(insert(EmptyMap, "test_key", "test_value"),
                  "notification_type", "user_info_test")) >>

\* the variant whose notification carries the key another test searches for
Prog_test_get_active_notifications_tagged ==
    << CreateFromEnv(DEFAULT_BUNDLE_ID_tests),
       RegisterStep(create_test_categories),
       SendStep(ACTION_CATEGORY_ID,
           insert(insert(EmptyMap, "active_test", "true"), "integration_test", "true")),
       SleepStep(1),
       GetActiveStep >>

Prog_test_get_active_notifications ==
    << CreateFromEnv(DEFAULT_BUNDLE_ID_tests),
       RegisterStep(create_test_categories),
       SendStep(ACTION_CATEGORY_ID, insert(EmptyMap, "active_test", "true")),
       SleepStep(1),
       GetActiveStep >>

Prog_test_notification_verification ==
    << CreateFromEnv(DEFAULT_BUNDLE_ID_tests),
       RegisterStep(create_test_categories),
       SendStep(TEXT_INPUT_CATEGORY_ID,
           insert(insert(EmptyMap, "verification_key", "verification_value"),
                  "test_id", "verification_test")),
       SleepStep(2),
       GetActiveStep,
       VerifyStep("assert_key_value", "verification_key", "verification_value") >>

Prog_test_integration_full_flow ==
    << CreateFromEnv(DEFAULT_BUNDLE_ID_tests),
       RegisterStep(create_test_categories),
       AskMacosNonFatal,
       SendStep(ACTION_CATEGORY_ID, EmptyMap),
       SendStep(TEXT_INPUT_CATEGORY_ID,
           insert(insert(EmptyMap, "integration_test", "full_flow"), "step", "4")),
       SleepStep(2),
       GetActiveStep,
       VerifyStep("assert_key", "integration_test", "") >>

Prog_test_long_text_notification ==
    << CreateFromEnv(DEFAULT_BUNDLE_ID_tests),
       SendStep(ACTION_CATEGORY_ID, EmptyMap) >>

Examples ==
    {"example_test", "example_basic", "example_active", "example_permission",
     "example_interactive", "example_full"}

\* test_permission_request is itself under #[cfg(target_os = "macos")]
Tests(os) ==
    {"test_notification_manager_creation", "test_category_registration",
     "test_basic_notification_send", "test_notification_with_user_info",
     "test_get_active_notifications", "test_notification_verification",
     "test_integration_full_flow", "test_long_text_notification"}
    \cup (IF os = "macos" THEN {"test_permission_request"} ELSE {})

Flows(os) == Examples \cup Tests(os)

Prog(f) ==
    CASE f = "example_test" -> Prog_example_test
      [] f = "example_basic" -> Prog_example_basic
      [] f = "example_active" -> Prog_example_active
      [] f = "example_permission" -> Prog_example_permission
      [] f = "example_interactive" -> Prog_example_interactive
      [] f = "example_full" -> Prog_example_full
      [] f = "test_notification_manager_creation" -> Prog_test_notification_manager_creation
      [] f = "test_category_registration" -> Prog_test_category_registration
      [] f = "test_permission_request" -> Prog_test_permission_request
      [] f = "test_basic_notification_send" -> Prog_test_basic_notification_send
      [] f = "test_notification_with_user_info" -> Prog_test_notification_with_user_info
      [] f = "test_get_active_notifications" -> Prog_test_get_active_notifications
      [] f = "test_notification_verification" -> Prog_test_notification_verification
      [] f = "test_integration_full_flow" -> Prog_test_integration_full_flow
      [] f = "test_long_text_notification" -> Prog_test_long_text_notification

(***************************************************************************)
(* Choosing the bundle id.                                                 *)
(***************************************************************************)
SeqsUpTo(S, n) == UNION {[1..k -> S] : k \in 0..n}

LineChars == {" ", "a"}
LineEnds == {<<>>, <<"\n">>, <<"\r", "\n">>}
\* what read_line can leave in the buffer: the line with its terminator
StdinLines == {b \o e : b \in SeqsUpTo(LineChars, MaxLineLen), e \in LineEnds}

EnvValues == {<<>>, <<" ">>, <<"c", "o", "m", ".", "x">>}
\* the states of TEST_BUNDLE_ID
EnvStates ==
    {[state |-> "unset", val |-> <<>>], [state |-> "not_unicode", val |-> <<>>]}
    \cup {[state |-> "set", val |-> v] : v \in EnvValues}

NoInput == [source |-> "none", line |-> <<>>]
\* what the flow reads before it creates its manager
Inputs(source) ==
    IF source = "stdin"
    THEN {[source |-> "stdin", line |-> l] : l \in StdinLines}
    ELSE {[source |-> "env", line |-> <<>>]}

\* examples/test.rs: trim the line, fall back to the default when it is empty
prompt_bundle_id(line, default) ==
    LET trimmed == Trim(line)
    IN  IF is_empty(trimmed) THEN default ELSE trimmed

\* the variant that never reads the variable
get_test_bundle_id_default_only(var, default) == default

\* std::env::var("TEST_BUNDLE_ID").unwrap_or_else(|_| DEFAULT_BUNDLE_ID.to_string()):
\* env::var is Err when the variable is unset or is not valid Unicode
get_test_bundle_id(var, default) ==
    IF var.state = "set" THEN var.val ELSE default

BundleIdOf(s, inp, var) ==
    IF s.source = "stdin"
    THEN prompt_bundle_id(inp.line, s.default)
    ELSE get_test_bundle_id(var, s.default)

(***************************************************************************)
(* The notification manager, from its contract.                            *)
(***************************************************************************)
\* res: "ok" | "err"; val: the boolean of an Ok, the cause of an Err
Result(res, val, handles) == [res |-> res, val |-> val, handles |-> handles]

WellFormed(id) == id # ""

CategoriesWellFormed(cats) ==
    \A i \in 1..Len(cats) :
        /\ WellFormed(cats[i].identifier)
        /\ \A j \in 1..Len(cats[i].actions) : WellFormed(cats[i].actions[j].identifier)

\* the variant that also rejects categories with a text-input action
register_buttons_only(cats) ==
    IF /\ CategoriesWellFormed(cats)
       /\ \A i \in 1..Len(cats) : \A j \in 1..Len(cats[i].actions) :
              cats[i].actions[j].kind = "Action"
    THEN Result("ok", "-", <<>>) ELSE Result("err", "malformed", <<>>)

\* register: fails if a category/action identifier is malformed
register(cats) ==
    IF CategoriesWellFormed(cats)
    THEN Result("ok", "-", <<>>) ELSE Result("err", "malformed", <<>>)

\* the variant that rejects a reference to the text-input category
send_notification_action_only(cat) ==
    IF WellFormed(cat) /\ cat # TEXT_INPUT_CATEGORY_ID
    THEN {Result("ok", "-", <<>>), Result("err", "transport", <<>>)}
    ELSE {Result("err", "malformed", <<>>)}

\* the variant that registers only the categories the centre does not hold yet
RegisteredAfterDropsKnown(current, cats, r) ==
    IF r.res = "ok" THEN CategoryIds(cats) \ current ELSE current

\* the centre's categories after register returned r: a successful register
\* sets them to the list given, whatever was registered before
RegisteredAfter(current, cats, r) ==
    IF r.res = "ok" THEN CategoryIds(cats) ELSE current

\* send_notification: fails on malformed category reference or transport error
send_notification(cat) ==
    IF WellFormed(cat)
    THEN {Result("ok", "-", <<>>), Result("err", "transport", <<>>)}
    ELSE {Result("err", "malformed", <<>>)}

\* first_time_ask_for_notification_permission and
\* get_notification_permission_state: a boolean, or an error
permission_result ==
    {Result("ok", "true", <<>>), Result("ok", "false", <<>>), Result("err", "os", <<>>)}

RECURSIVE Pick(_, _, _)
Pick(s, I, i) ==
    IF i > Len(s) THEN <<>>
    ELSE (IF i \in I THEN <<s[i]>> ELSE <<>>) \o Pick(s, I, i + 1)

\* the notifications still present in the centre: any of those delivered, in order
StillActive(store) == {Pick(store, I, 1) : I \in SUBSET (1..Len(store))}

get_active_notifications(store) ==
    {Result("ok", "-", h) : h \in StillActive(store)} \cup {Result("err", "os", <<>>)}

Outcomes(s, store) ==
    CASE s.op = "send" -> send_notification(s.cat)
      [] s.op = "get_active" -> get_active_notifications(store)
      [] OTHER -> permission_result

\* user-infos of notifications earlier runs left in the centre for the bundle id
ForeignInfos ==
    { EmptyMap,
      insert(EmptyMap, "hey", "other"),
      insert(EmptyMap, "verification_key", "stale") }

Notification(info, sender) == [info |-> info, sender |-> sender]

(***************************************************************************)
(* What a flow does with a result.                                         *)
(***************************************************************************)
\* the variant that goes on after an error
AfterResultIgnoringErr(s, r) ==
    IF r.res = "ok" /\ s.op = "ask_perm" /\ r.val = "false" /\ s.onDenied = "return_ok"
    THEN "return_ok"
    ELSE "next"

\* the variant in which every error is fatal
AfterResultAllFatal(s, r) ==
    IF r.res = "err" THEN "err"
    ELSE IF s.op = "ask_perm" /\ r.val = "false" /\ s.onDenied = "return_ok"
         THEN "return_ok"
         ELSE "next"

\* the variant in which an error of the permission request is never fatal
AfterResultPermissionNonFatal(s, r) ==
    IF r.res = "err"
    THEN (IF s.onErr = "propagate" /\ s.op # "ask_perm" THEN "err" ELSE "next")
    ELSE IF s.op = "ask_perm" /\ r.val = "false" /\ s.onDenied = "return_ok"
         THEN "return_ok"
         ELSE "next"

\* the variant that goes on when the permission is denied
AfterResultIgnoringDenial(s, r) ==
    IF r.res = "err" /\ s.onErr = "propagate" THEN "err" ELSE "next"

\* `?` on the call, or the match / if-let around it
AfterResult(s, r) ==
    IF r.res = "err"
    THEN (IF s.onErr = "propagate" THEN "err" ELSE "next")
    ELSE IF s.op = "ask_perm" /\ r.val = "false" /\ s.onDenied = "return_ok"
         THEN "return_ok"
         ELSE "next"

\* spawn(..).await: the JoinHandle yields Ok(result of the task); test.rs
\* matches Err on it for the permission request and applies `??` for the send
AfterJoin(s, r) ==
    IF r.res = "err" /\ s.onErr = "propagate" THEN "err" ELSE "next"

\* what the flow reports about the permission request
PermLabel(s, r, joined) ==
    IF r.res = "err" /\ ~joined THEN "perm_failed"
    ELSE IF s.onDenied = "return_ok"
         THEN (IF r.val = "true" THEN "perm_granted" ELSE "perm_denied")
         ELSE "perm_completed"

\* index of the first handle whose user-info has the key, 0 when there is none
find(handles, key) ==
    LET hits == {i \in 1..Len(handles) : contains_key(handles[i].info, key)}
    IN  IF hits = {} THEN 0 ELSE CHOOSE i \in hits : \A j \in hits : i <= j

filter_value(handles, key, value) ==
    {i \in 1..Len(handles) : get(handles[i].info, key) = value}

\* the variant that accepts the value on any handle, not on the first with the key
VerdictAnyWithValue(s, handles) ==
    IF s.check = "assert_key_value"
    THEN (IF filter_value(handles, s.key, s.value) # {} THEN "pass" ELSE "panic")
    ELSE IF find(handles, s.key) # 0 THEN "pass"
         ELSE IF s.check = "assert_key" THEN "panic" ELSE "warn"

\* the variant in which every check is an assertion
VerdictAllAsserting(s, handles) ==
    IF s.check \in {"assert_key", "warn_key"}
    THEN (IF find(handles, s.key) # 0 THEN "pass" ELSE "panic")
    ELSE IF s.check = "warn_value"
         THEN (IF filter_value(handles, s.key, s.value) # {} THEN "pass" ELSE "panic")
         ELSE IF find(handles, s.key) # 0
                 /\ get(handles[find(handles, s.key)].info, s.key) = s.value
              THEN "pass" ELSE "panic"

\* the variant that looks at the first handle only
VerdictFirstOnly(s, handles) ==
    IF Len(handles) > 0 /\ contains_key(handles[1].info, s.key)
    THEN "pass"
    ELSE IF s.check \in {"assert_key", "assert_key_value"} THEN "panic" ELSE "warn"

\* the check a flow makes on the enumerated handles
Verdict(s, handles) ==
    CASE s.check = "assert_key" ->
            IF find(handles, s.key) # 0 THEN "pass" ELSE "panic"
      [] s.check = "assert_key_value" ->
            IF find(handles, s.key) = 0 THEN "panic"
            ELSE IF get(handles[find(handles, s.key)].info, s.key) = s.value
                 THEN "pass" ELSE "panic"
      [] s.check = "warn_key" ->
            IF find(handles, s.key) # 0 THEN "pass" ELSE "warn"
      [] s.check = "warn_value" ->
            IF filter_value(handles, s.key, s.value) # {} THEN "pass" ELSE "warn"

(***************************************************************************)
(* The state machine.                                                      *)
(***************************************************************************)
TargetOS == {"macos", "linux"}

\* the flows that run in one process: one example program, or one test
Suites(os) == {{f} : f \in Flows(os)}

\* the centre holding notifications with the user-infos m, left by earlier runs
ForeignStore(m) == [i \in 1..Len(m) |-> Notification(m[i], "foreign")]

NoTask == [st |-> "none", step |-> Step("none"), res |-> Result("pending", "-", <<>>)]

Init ==
    /\ platform \in TargetOS
    /\ env \in EnvStates
    /\ running \in Suites(platform)
    /\ pc = [f \in running |-> 1]
    /\ st = [f \in running |-> "ready"]
    /\ task = [f \in running |-> NoTask]
    /\ input = [f \in running |-> NoInput]
    /\ bundle = [f \in running |-> <<>>]
    /\ registered = [f \in running |-> {}]
    /\ categories = {}
    /\ elapsed = [f \in running |-> 0]
    /\ responses = [f \in running |-> 0]
    /\ has_permission = [f \in running |-> FALSE]
    /\ active = [f \in running |-> <<>>]
    /\ hist = [f \in running |-> <<>>]
    /\ log = [f \in running |-> {}]
    /\ delivered \in {ForeignStore(m) : m \in SeqsUpTo(ForeignInfos, MaxForeign)}

InProgram(f) == st[f] = "ready" /\ pc[f] <= Len(Prog(f))
cur(f) == Prog(f)[pc[f]]
AtStep(f, ops) == InProgram(f) /\ cur(f).op \in ops

AsyncOps == {"ask_perm", "query_perm", "send", "get_active"}

\* the variant without the platform condition
GuardHoldsAnyPlatform(f, s) ==
    CASE s.guard = "no_permission" -> ~has_permission[f]
      [] OTHER -> TRUE

\* #[cfg(target_os = "macos")] and `if !has_permission`
GuardHolds(f, s) ==
    CASE s.guard = "macos" -> platform = "macos"
      [] s.guard = "no_permission" -> ~has_permission[f]
      [] OTHER -> TRUE

Entry(s, by, res) ==
    [op |-> s.op, by |-> by, cat |-> s.cat, cats |-> CategoryIds(s.cats),
     res |-> res.res, val |-> res.val]

Pending == Result("pending", "-", <<>>)

SetLast(h, r) == [h EXCEPT ![Len(h)].res = r.res, ![Len(h)].val = r.val]

\* get_notification_manager(bundle_id, None)
CreateManager(f) ==
    /\ AtStep(f, {"create"})
    /\ \E inp \in Inputs(cur(f).source) :
        /\ input' = [input EXCEPT ![f] = inp]
        /\ bundle' = [bundle EXCEPT ![f] = <<BundleIdOf(cur(f), inp, env)>>]
    /\ pc' = [pc EXCEPT ![f] = @ + 1]
    /\ UNCHANGED <<platform, env, running, st, task, registered, categories, elapsed, has_permission,
                   active, hist, log, delivered, responses>>

\* manager.register(callback, categories)?
Register(f) ==
    /\ AtStep(f, {"register"})
    /\ LET r == register(cur(f).cats)
       IN  /\ hist' = [hist EXCEPT ![f] = Append(@, Entry(cur(f), "main", r))]
           /\ registered' = [registered EXCEPT ![f] =
                                IF r.res = "ok" THEN CategoryIds(cur(f).cats) ELSE @]
           /\ categories' = RegisteredAfter(categories, cur(f).cats, r)
           /\ IF AfterResult(cur(f), r) = "err"
              THEN st' = [st EXCEPT ![f] = "err"] /\ pc' = pc
              ELSE pc' = [pc EXCEPT ![f] = @ + 1] /\ st' = st
    /\ elapsed' = [elapsed EXCEPT ![f] = 0]
    /\ UNCHANGED <<platform, env, running, task, input, bundle, has_permission,
                   active, log, delivered, responses>>

\* the permission request is compiled out, or has_permission is true
SkipPermission(f) ==
    /\ AtStep(f, {"ask_perm"})
    /\ ~GuardHolds(f, cur(f))
    /\ pc' = [pc EXCEPT ![f] = @ + 1]
    /\ log' = [log EXCEPT ![f] = @ \cup {"perm_not_requested"}]
    /\ UNCHANGED <<platform, env, running, st, task, input, bundle, registered, categories, elapsed,
                   has_permission, active, hist, delivered, responses>>

\* the main task calls an async operation of the manager and awaits it
Call(f) ==
    /\ AtStep(f, AsyncOps)
    /\ ~cur(f).spawned
    /\ GuardHolds(f, cur(f))
    /\ st' = [st EXCEPT ![f] = "in_op"]
    /\ hist' = [hist EXCEPT ![f] = Append(@, Entry(cur(f), "main", Pending))]
    /\ UNCHANGED <<platform, env, running, pc, task, input, bundle, registered, categories, elapsed,
                   has_permission, active, log, delivered, responses>>

\* what completing operation s with result r does to the notification centre
Deliver(f, s, r) ==
    IF s.op = "send" /\ r.res = "ok"
    THEN Append(delivered, Notification(s.info, f))
    ELSE delivered

\* the awaited operation completes and the main task handles its result
Return(f) ==
    /\ st[f] = "in_op"
    /\ \E r \in Outcomes(cur(f), delivered) :
        LET s == cur(f)
            next == AfterResult(s, r)
        IN  /\ hist' = [hist EXCEPT ![f] = SetLast(@, r)]
            /\ delivered' = Deliver(f, s, r)
            /\ st' = [st EXCEPT ![f] =
                        CASE next = "err" -> "err"
                          [] next = "return_ok" -> "ok"
                          [] OTHER -> "ready"]
            /\ pc' = [pc EXCEPT ![f] = IF next = "next" THEN @ + 1 ELSE @]
            /\ has_permission' = [has_permission EXCEPT ![f] =
                        IF s.op = "query_perm" /\ r.res = "ok" THEN r.val = "true" ELSE @]
            /\ active' = [active EXCEPT ![f] =
                        IF s.op = "get_active" /\ r.res = "ok" THEN r.handles ELSE @]
            /\ log' = [log EXCEPT ![f] =
                        IF s.op = "ask_perm" THEN @ \cup {PermLabel(s, r, FALSE)} ELSE @]
    /\ elapsed' = [elapsed EXCEPT ![f] = 0]
    /\ UNCHANGED <<platform, env, running, task, input, bundle, registered, categories, responses>>

\* the variant that does not await the JoinHandle
SpawnDetached(f) ==
    /\ AtStep(f, AsyncOps)
    /\ cur(f).spawned
    /\ GuardHolds(f, cur(f))
    /\ task[f].st = "none"
    /\ task' = [task EXCEPT ![f] = [NoTask EXCEPT !.st = "spawned", !.step = cur(f)]]
    /\ pc' = [pc EXCEPT ![f] = @ + 1]
    /\ UNCHANGED <<platform, env, running, st, input, bundle, registered, categories, elapsed,
                   has_permission, active, hist, log, delivered, responses>>

\* spawn(async move { manager_clone.<op>().await }) followed by .await on the handle
Spawn(f) ==
    /\ AtStep(f, AsyncOps)
    /\ cur(f).spawned
    /\ GuardHolds(f, cur(f))
    /\ task' = [task EXCEPT ![f] = [NoTask EXCEPT !.st = "spawned", !.step = cur(f)]]
    /\ st' = [st EXCEPT ![f] = "joining"]
    /\ UNCHANGED <<platform, env, running, pc, input, bundle, registered, categories, elapsed,
                   has_permission, active, hist, log, delivered, responses>>

\* the spawned task calls the operation on its clone of the manager
TaskCall(f) ==
    /\ task[f].st = "spawned"
    /\ task' = [task EXCEPT ![f].st = "in_op"]
    /\ hist' = [hist EXCEPT ![f] = Append(@, Entry(task[f].step, "task", Pending))]
    /\ UNCHANGED <<platform, env, running, pc, st, input, bundle, registered, categories, elapsed,
                   has_permission, active, log, delivered, responses>>

\* the operation of the spawned task completes; the task returns its result
TaskReturn(f) ==
    /\ task[f].st = "in_op"
    /\ \E r \in Outcomes(task[f].step, delivered) :
        /\ task' = [task EXCEPT ![f].st = "finished", ![f].res = r]
        /\ hist' = [hist EXCEPT ![f] = SetLast(@, r)]
        /\ delivered' = Deliver(f, task[f].step, r)
    /\ elapsed' = [elapsed EXCEPT ![f] = 0]
    /\ UNCHANGED <<platform, env, running, pc, st, input, bundle, registered, categories,
                   has_permission, active, log, responses>>

\* the variant in which the main task goes on while the spawned task still runs
JoinWithoutWaiting(f) ==
    /\ st[f] = "joining"
    /\ st' = [st EXCEPT ![f] = "ready"]
    /\ pc' = [pc EXCEPT ![f] = @ + 1]
    /\ UNCHANGED <<platform, env, running, task, input, bundle, registered, categories,
                   elapsed, has_permission, active, hist, log, delivered, responses>>

\* the JoinHandle resolves and the main task handles what the task returned
Join(f) ==
    /\ st[f] = "joining"
    /\ task[f].st = "finished"
    /\ LET s == task[f].step
           r == task[f].res
           next == AfterJoin(s, r)
       IN  /\ st' = [st EXCEPT ![f] = IF next = "err" THEN "err" ELSE "ready"]
           /\ pc' = [pc EXCEPT ![f] = IF next = "next" THEN @ + 1 ELSE @]
           /\ log' = [log EXCEPT ![f] =
                        IF s.op = "ask_perm" THEN @ \cup {PermLabel(s, r, TRUE)} ELSE @]
    /\ task' = [task EXCEPT ![f] = NoTask]
    /\ UNCHANGED <<platform, env, running, input, bundle, registered, categories, elapsed, has_permission,
                   active, hist, delivered, responses>>

\* the variant that keeps the program alive until a signal instead of a delay
StartSleepUntilSignal(f) ==
    /\ AtStep(f, {"sleep"})
    /\ st' = [st EXCEPT ![f] = "waiting_signal"]
    /\ UNCHANGED <<platform, env, running, pc, task, input, bundle, registered, categories,
                   elapsed, has_permission, active, hist, log, delivered, responses>>

\* sleep(Duration::from_secs(n)).await
StartSleep(f) ==
    /\ AtStep(f, {"sleep"})
    /\ st' = [st EXCEPT ![f] = "sleeping"]
    /\ UNCHANGED <<platform, env, running, pc, task, input, bundle, registered, categories, elapsed,
                   has_permission, active, hist, log, delivered, responses>>

\* the variant in which the delay ends at once
WakeAtOnce(f) ==
    /\ st[f] = "sleeping"
    /\ st' = [st EXCEPT ![f] = "ready"]
    /\ pc' = [pc EXCEPT ![f] = @ + 1]
    /\ elapsed' = [elapsed EXCEPT ![f] = @]
    /\ UNCHANGED <<platform, env, running, task, input, bundle, registered, categories,
                   has_permission, active, hist, log, delivered, responses>>

Wake(f) ==
    /\ st[f] = "sleeping"
    /\ st' = [st EXCEPT ![f] = "ready"]
    /\ pc' = [pc EXCEPT ![f] = @ + 1]
    /\ elapsed' = [elapsed EXCEPT ![f] = @ + cur(f).secs]
    /\ UNCHANGED <<platform, env, running, task, input, bundle, registered, categories,
                   has_permission, active, hist, log, delivered, responses>>

\* the variant in which a failed assertion does not abort the flow
VerifyWithoutAbort(f) ==
    /\ AtStep(f, {"verify"})
    /\ log' = [log EXCEPT ![f] = @ \cup {"verify_" \o Verdict(cur(f), active[f])}]
    /\ pc' = [pc EXCEPT ![f] = @ + 1]
    /\ UNCHANGED <<platform, env, running, st, task, input, bundle, registered, categories, elapsed,
                   has_permission, active, hist, delivered, responses>>

\* the find / filter over the handles and the assertion or warning after it
Verify(f) ==
    /\ AtStep(f, {"verify"})
    /\ LET v == Verdict(cur(f), active[f])
       IN  /\ log' = [log EXCEPT ![f] = @ \cup {"verify_" \o v}]
           /\ IF v = "panic"
              THEN st' = [st EXCEPT ![f] = "panic"] /\ pc' = pc
              ELSE pc' = [pc EXCEPT ![f] = @ + 1] /\ st' = st
    /\ UNCHANGED <<platform, env, running, task, input, bundle, registered, categories, elapsed,
                   has_permission, active, hist, delivered, responses>>

\* the variant that goes on without waiting for the signal
AwaitCtrlCNotWaiting(f) ==
    /\ AtStep(f, {"ctrl_c"})
    /\ pc' = [pc EXCEPT ![f] = @ + 1]
    /\ UNCHANGED <<platform, env, running, st, task, input, bundle, registered, categories, elapsed,
                   has_permission, active, hist, log, delivered, responses>>

\* let _ = ctrl_c().await
AwaitCtrlC(f) ==
    /\ AtStep(f, {"ctrl_c"})
    /\ st' = [st EXCEPT ![f] = "waiting_signal"]
    /\ UNCHANGED <<platform, env, running, pc, task, input, bundle, registered, categories, elapsed,
                   has_permission, active, hist, log, delivered, responses>>

\* the interrupt signal arrives
Interrupt(f) ==
    /\ st[f] = "waiting_signal"
    /\ st' = [st EXCEPT ![f] = "ready"]
    /\ pc' = [pc EXCEPT ![f] = @ + 1]
    /\ log' = [log EXCEPT ![f] = @ \cup {"exit_signal_received"}]
    /\ UNCHANGED <<platform, env, running, task, input, bundle, registered, categories, elapsed,
                   has_permission, active, hist, delivered, responses>>

\* Ok(()) at the end of the body
Finish(f) ==
    /\ st[f] = "ready"
    /\ pc[f] = Len(Prog(f)) + 1
    /\ st' = [st EXCEPT ![f] = "ok"]
    /\ UNCHANGED <<platform, env, running, pc, task, input, bundle, registered, categories, elapsed,
                   has_permission, active, hist, log, delivered, responses>>

Ended(f) == st[f] \in {"ok", "err", "panic"}

\* the variant in which the callback sends a notification of its own
RespondAndSend(f) ==
    /\ registered[f] # {}
    /\ ~Ended(f)
    /\ responses[f] < MaxResponses
    /\ responses' = [responses EXCEPT ![f] = @ + 1]
    /\ hist' = [hist EXCEPT ![f] =
                   Append(@, Entry(SendStep(ACTION_CATEGORY_ID, EmptyMap), "callback",
                                   Result("ok", "-", <<>>)))]
    /\ UNCHANGED <<platform, env, running, pc, st, task, input, bundle, registered,
                   categories, elapsed, has_permission, active, log, delivered>>

\* the user acts on a notification and the manager invokes the callback given
\* to register: |response| { log::info!("Received notification response: ..") }
Respond(f) ==
    /\ registered[f] # {}
    /\ ~Ended(f)
    /\ responses[f] < MaxResponses
    /\ responses' = [responses EXCEPT ![f] = @ + 1]
    /\ UNCHANGED <<platform, env, running, pc, st, task, input, bundle, registered,
                   categories, elapsed, has_permission, active, hist, log, delivered>>

Next ==
    \/ \E f \in running : CreateManager(f)
    \/ \E f \in running : Register(f)
    \/ \E f \in running : SkipPermission(f)
    \/ \E f \in running : Call(f)
    \/ \E f \in running : Return(f)
    \/ \E f \in running : Spawn(f)
    \/ \E f \in running : TaskCall(f)
    \/ \E f \in running : TaskReturn(f)
    \/ \E f \in running : Join(f)
    \/ \E f \in running : StartSleep(f)
    \/ \E f \in running : Wake(f)
    \/ \E f \in running : Verify(f)
    \/ \E f \in running : AwaitCtrlC(f)
    \/ \E f \in running : Interrupt(f)
    \/ \E f \in running : Finish(f)

Spec == Init /\ [][Next]_vars

(***************************************************************************)
(* One program on a notification centre that holds nothing yet, with the   *)
(* user acting on its notifications while it runs.                         *)
(***************************************************************************)
InitFresh ==
    /\ platform \in TargetOS
    /\ env \in EnvStates
    /\ running \in Suites(platform)
    /\ pc = [f \in running |-> 1]
    /\ st = [f \in running |-> "ready"]
    /\ task = [f \in running |-> NoTask]
    /\ input = [f \in running |-> NoInput]
    /\ bundle = [f \in running |-> <<>>]
    /\ registered = [f \in running |-> {}]
    /\ categories = {}
    /\ elapsed = [f \in running |-> 0]
    /\ responses = [f \in running |-> 0]
    /\ has_permission = [f \in running |-> FALSE]
    /\ active = [f \in running |-> <<>>]
    /\ hist = [f \in running |-> <<>>]
    /\ log = [f \in running |-> {}]
    /\ delivered = <<>>

NextResponses ==
    \/ \E f \in running : CreateManager(f)
    \/ \E f \in running : Register(f)
    \/ \E f \in running : SkipPermission(f)
    \/ \E f \in running : Call(f)
    \/ \E f \in running : Return(f)
    \/ \E f \in running : Spawn(f)
    \/ \E f \in running : TaskCall(f)
    \/ \E f \in running : TaskReturn(f)
    \/ \E f \in running : Join(f)
    \/ \E f \in running : StartSleep(f)
    \/ \E f \in running : Wake(f)
    \/ \E f \in running : Verify(f)
    \/ \E f \in running : AwaitCtrlC(f)
    \/ \E f \in running : Interrupt(f)
    \/ \E f \in running : Finish(f)
    \/ \E f \in running : Respond(f)

SpecResponses == InitFresh /\ [][NextResponses]_vars

(***************************************************************************)
(* One program under the scheduling of its runtime: a step of the program  *)
(* that can be taken is taken, and an operation or a delay that was        *)
(* started completes.  The interrupt signal comes from outside and may     *)
(* never come.                                                             *)
(***************************************************************************)
Progress ==
    \/ \E f \in running : CreateManager(f)
    \/ \E f \in running : Register(f)
    \/ \E f \in running : SkipPermission(f)
    \/ \E f \in running : Call(f)
    \/ \E f \in running : Return(f)
    \/ \E f \in running : Spawn(f)
    \/ \E f \in running : TaskCall(f)
    \/ \E f \in running : TaskReturn(f)
    \/ \E f \in running : Join(f)
    \/ \E f \in running : StartSleep(f)
    \/ \E f \in running : Wake(f)
    \/ \E f \in running : Verify(f)
    \/ \E f \in running : AwaitCtrlC(f)
    \/ \E f \in running : Finish(f)

SpecLive == InitFresh /\ [][Next]_vars /\ WF_vars(Progress)

(***************************************************************************)
(* The integration tests of one `cargo test` run.  The test harness runs   *)
(* the #[tokio::test] functions on threads of one process; two of them at  *)
(* a time are taken here.  Each has its own manager, and all of them use   *)
(* the bundle id of get_test_bundle_id, hence one notification centre,     *)
(* which is empty when the run starts.                                     *)
(***************************************************************************)
TestSuites(os) == {{f, g} : f \in Tests(os), g \in Tests(os)} \ {{f} : f \in Tests(os)}

InitTests ==
    /\ platform \in TargetOS
    /\ env \in EnvStates
    /\ running \in TestSuites(platform)
    /\ pc = [f \in running |-> 1]
    /\ st = [f \in running |-> "ready"]
    /\ task = [f \in running |-> NoTask]
    /\ input = [f \in running |-> NoInput]
    /\ bundle = [f \in running |-> <<>>]
    /\ registered = [f \in running |-> {}]
    /\ categories = {}
    /\ elapsed = [f \in running |-> 0]
    /\ responses = [f \in running |-> 0]
    /\ has_permission = [f \in running |-> FALSE]
    /\ active = [f \in running |-> <<>>]
    /\ hist = [f \in running |-> <<>>]
    /\ log = [f \in running |-> {}]
    /\ delivered = <<>>

\* the steps the tests have: no test spawns a task or awaits a signal
NextTests ==
    \/ \E f \in running : CreateManager(f)
    \/ \E f \in running : Register(f)
    \/ \E f \in running : SkipPermission(f)
    \/ \E f \in running : Call(f)
    \/ \E f \in running : Return(f)
    \/ \E f \in running : StartSleep(f)
    \/ \E f \in running : Wake(f)
    \/ \E f \in running : Verify(f)
    \/ \E f \in running : Finish(f)

SpecTests == InitTests /\ [][NextTests]_vars

(***************************************************************************)
(* test_notification_verification running beside one other test, on a     *)
(* centre that may still hold notifications of earlier runs.               *)
(***************************************************************************)
VerificationSuites(os) ==
    {{"test_notification_verification", g} :
         g \in Tests(os) \ {"test_notification_verification"}}

\* user-infos left by an earlier run of the test whose value was another one
StaleInfos == {insert(EmptyMap, "verification_key", "stale")}

InitVerification ==
    /\ platform \in TargetOS
    /\ env \in EnvStates
    /\ running \in VerificationSuites(platform)
    /\ pc = [f \in running |-> 1]
    /\ st = [f \in running |-> "ready"]
    /\ task = [f \in running |-> NoTask]
    /\ input = [f \in running |-> NoInput]
    /\ bundle = [f \in running |-> <<>>]
    /\ registered = [f \in running |-> {}]
    /\ categories = {}
    /\ elapsed = [f \in running |-> 0]
    /\ responses = [f \in running |-> 0]
    /\ has_permission = [f \in running |-> FALSE]
    /\ active = [f \in running |-> <<>>]
    /\ hist = [f \in running |-> <<>>]
    /\ log = [f \in running |-> {}]
    /\ delivered \in {ForeignStore(m) : m \in SeqsUpTo(StaleInfos, MaxForeign)}

SpecVerification == InitVerification /\ [][NextTests]_vars

(***************************************************************************)
(* Properties.                                                             *)
(***************************************************************************)
Entries(f) == 1..Len(hist[f])
Created(f) == bundle[f] # <<>>
DefaultOf(f) == Prog(f)[1].default
Last(h) == h[Len(h)]

\* the send at position i of f's operations names a category that an earlier,
\* successful register on f's manager contained
RegisteredBefore(f, i) ==
    \E j \in 1..(i - 1) :
        /\ hist[f][j].op = "register"
        /\ hist[f][j].res = "ok"
        /\ hist[f][i].cat \in hist[f][j].cats

\* C1: every send_notification whose request carries a category id is preceded,
\* on the same manager, by a successful register whose list contains a category
\* with that identifier.
C1_RegisteredBeforeSend ==
    \A f \in running : \A i \in Entries(f) :
        hist[f][i].op = "send" => RegisteredBefore(f, i)

TaskSending(f) == task[f].st = "in_op" /\ task[f].step.op = "send"

\* C2 as stated: the second send of examples/test.rs is outstanding in the
\* spawned task while the first task continues, instead of being suspended
\* until the spawned task has finished.
C2_SendWhileFirstContinues ==
    \A f \in running : TaskSending(f) => st[f] # "joining"

\* C2, amended: in examples/test.rs the first task awaits the JoinHandle of the
\* task it spawned at once.  While the spawned task exists the first task is
\* suspended on the join and has no operation outstanding; the spawned send is
\* issued only after the first send returned success, whose recorded result
\* stays as it was; and the first task goes on past the join only with the
\* spawned send's success.
C2_SpawnedSendAwaited ==
    \A f \in running :
        /\ task[f].st # "none" => st[f] = "joining"
        /\ \A i \in Entries(f) :
              (hist[f][i].op = "send" /\ hist[f][i].by = "task") =>
                  /\ \A j \in 1..(i - 1) : hist[f][j].res # "pending"
                  /\ \A j \in 1..(i - 1) : hist[f][j].op = "send" => hist[f][j].res = "ok"
                  /\ (i < Len(hist[f]) \/ st[f] \in {"ready", "sleeping"})
                        => hist[f][i].res = "ok"

C2_Witness ==
    \E f \in running :
        /\ f = "example_test"
        /\ TaskSending(f)
        /\ st[f] = "joining"
        /\ \E j \in Entries(f) : hist[f][j].op = "send" /\ hist[f][j].by = "main"

HasKey(info, k) == \E p \in info : p[1] = k
Accepted(f) == "verify_pass" \in log[f]
Rejected(f) == "verify_panic" \in log[f]

VerifyIdx(f) == CHOOSE k \in 1..Len(Prog(f)) : Prog(f)[k].op = "verify"

\* C3 as stated: examples/test.rs accepts the enumeration only if some returned
\* handle's user-info contains the pair "hey" -> "hi".
C3_AcceptsOnlyExactPair ==
    \A f \in running :
        (f = "example_test" /\ Accepted(f)) =>
            \E i \in 1..Len(active[f]) : <<"hey", "hi">> \in active[f][i].info

\* C3, amended: examples/test.rs accepts the enumeration if and only if some
\* returned handle's user-info contains the key "hey", whatever its value; it
\* panics exactly when no returned handle has the key.
C3_AcceptsAnyValueOfKey ==
    \A f \in running :
        f = "example_test" =>
            /\ Accepted(f) => \E i \in 1..Len(active[f]) : HasKey(active[f][i].info, "hey")
            /\ Rejected(f) => \A i \in 1..Len(active[f]) : ~HasKey(active[f][i].info, "hey")
            /\ pc[f] > VerifyIdx(f) => Accepted(f)

C3_Witness ==
    \E f \in running :
        /\ f = "example_test"
        /\ Accepted(f)
        /\ \E i \in 1..Len(active[f]) : <<"hey", "other">> \in active[f][i].info
        /\ \A i \in 1..Len(active[f]) : <<"hey", "hi">> \notin active[f][i].info

FatalOps == {"register", "query_perm", "send", "get_active"}

\* C4: when register, get_notification_permission_state, send_notification or
\* get_active_notifications returns an error, that call is the last manager
\* operation of the flow, no later step runs, and the flow ends with the error
\* (for the spawned send of examples/test.rs: as soon as the join resolves).
C4_ErrorEndsFlow ==
    \A f \in running : \A i \in Entries(f) :
        (hist[f][i].op \in FatalOps /\ hist[f][i].res = "err") =>
            /\ i = Len(hist[f])
            /\ pc[f] \in 1..Len(Prog(f))
            /\ Prog(f)[pc[f]].op = hist[f][i].op
            /\ \/ st[f] = "err"
               \/ /\ st[f] = "joining"
                  /\ task[f].st = "finished"
                  /\ task[f].res.res = "err"

C4_Witness ==
    \E f \in running :
        /\ st[f] = "err"
        /\ hist[f] # <<>>
        /\ Last(hist[f]).op = "send"
        /\ Last(hist[f]).by = "task"
        /\ Last(hist[f]).res = "err"

PermissionThenSendFlows ==
    {"example_test", "example_full", "test_permission_request",
     "test_integration_full_flow"}

PermIdx(f) == CHOOSE k \in 1..Len(Prog(f)) : Prog(f)[k].op = "ask_perm"

\* C5: in examples/test.rs, test_full_integration, test_permission_request and
\* test_integration_full_flow, once the permission request has returned,
\* with an error or with success, the flow is at the step after the request:
\* the first send_notification, or the end of the flow when nothing is sent.
C5_PermissionErrorNonFatal ==
    \A f \in running \cap PermissionThenSendFlows :
        /\ PermIdx(f) = Len(Prog(f)) \/ Prog(f)[PermIdx(f) + 1].op = "send"
        /\ \A i \in Entries(f) :
              (/\ hist[f][i].op = "ask_perm"
               /\ hist[f][i].res \in {"ok", "err"}
               /\ st[f] # "joining") =>
                  /\ pc[f] > PermIdx(f)
                  /\ i = Len(hist[f]) => (pc[f] = PermIdx(f) + 1 /\ st[f] \in {"ready", "ok"})

C5_Witness ==
    \E f \in running \cap PermissionThenSendFlows :
        /\ hist[f] # <<>>
        /\ Last(hist[f]).op = "ask_perm"
        /\ Last(hist[f]).res = "err"
        /\ st[f] = "ready"
        /\ pc[f] = PermIdx(f) + 1
        /\ Prog(f)[pc[f]].op = "send"

\* C6 as stated: on a platform other than macOS no flow invokes
\* first_time_ask_for_notification_permission.
C6_NoRequestOffMacos ==
    platform # "macos" =>
        \A f \in running : \A i \in Entries(f) : hist[f][i].op # "ask_perm"

\* C6, amended: on a platform other than macOS the only flow that invokes
\* first_time_ask_for_notification_permission is the test_basic_notification
\* example, and it does so exactly after get_notification_permission_state
\* returned false; every other flow skips the request.
C6_RequestOffMacosOnlyBasic ==
    platform # "macos" =>
        \A f \in running : \A i \in Entries(f) :
            hist[f][i].op = "ask_perm" =>
                /\ f = "example_basic"
                /\ i > 1
                /\ hist[f][i - 1].op = "query_perm"
                /\ hist[f][i - 1].res = "ok"
                /\ hist[f][i - 1].val = "false"

C6_Witness ==
    /\ platform # "macos"
    /\ \E f \in running :
        /\ f = "test_integration_full_flow"
        /\ "perm_not_requested" \in log[f]
        /\ \E i \in Entries(f) : hist[f][i].op = "send"

Blank(line) == \A i \in 1..Len(line) : line[i] \in Whitespace

\* the line from its first to its last character that is not whitespace
Stripped(line) ==
    LET ix == {i \in 1..Len(line) : line[i] \notin Whitespace}
        lo == CHOOSE i \in ix : \A j \in ix : i <= j
        hi == CHOOSE i \in ix : \A j \in ix : i >= j
    IN  [k \in 1..(hi - lo + 1) |-> line[lo + k - 1]]

PromptChoice(line, default) == IF Blank(line) THEN default ELSE Stripped(line)

\* C7: in examples/test.rs the manager is created with "ai.gety" when the line
\* read at the prompt is empty or blank, and with the line stripped of its
\* leading and trailing whitespace otherwise.
C7_PromptDefault ==
    \A f \in running :
        (f = "example_test" /\ Created(f)) =>
            /\ input[f].source = "stdin"
            /\ Blank(input[f].line) => bundle[f] = <<DEFAULT_BUNDLE_ID_test>>
            /\ ~Blank(input[f].line) => bundle[f] = <<Stripped(input[f].line)>>

C7_Witness ==
    \E f \in running :
        /\ f = "example_test"
        /\ Created(f)
        /\ input[f].line = <<" ", "a", "\r", "\n">>
        /\ bundle[f] = << <<"a">> >>

\* C8 as stated: in every flow the manager is created with the value of
\* TEST_BUNDLE_ID when it is set and with the program's default when it is unset.
C8_EnvOverridesEverywhere ==
    \A f \in running :
        Created(f) =>
            /\ env.state = "set" => bundle[f] = <<env.val>>
            /\ env.state = "unset" => bundle[f] = <<DefaultOf(f)>>

\* C8, amended: in every integration test and every example program other than
\* examples/test.rs the manager is created with the value of TEST_BUNDLE_ID
\* when it is set to valid Unicode, and with the program's default when it is
\* unset or not valid Unicode; examples/test.rs never reads the variable and
\* takes its bundle id from the prompt alone.
C8_EnvOverridesExceptPrompt ==
    \A f \in running :
        Created(f) =>
            IF f = "example_test"
            THEN bundle[f] = <<PromptChoice(input[f].line, DefaultOf(f))>>
            ELSE bundle[f] = <<IF env.state = "set" THEN env.val ELSE DefaultOf(f)>>

C8_Witness ==
    \E f \in running :
        /\ f # "example_test"
        /\ env = [state |-> "set", val |-> <<"c", "o", "m", ".", "x">>]
        /\ bundle[f] = << <<"c", "o", "m", ".", "x">> >>

Completed(e) == e.res # "pending"

RegisteredList(f) ==
    Prog(f)[CHOOSE k \in 1..Len(Prog(f)) : Prog(f)[k].op = "register"].cats

NonEmptyActions(cats) == \A i \in 1..Len(cats) : Len(cats[i].actions) > 0

AllIdentifiers(cats) ==
    CategoryIds(cats)
    \cup UNION {{cats[i].actions[j].identifier : j \in 1..Len(cats[i].actions)} :
                    i \in 1..Len(cats)}

\* C10: register succeeds for a list of categories that each have an
\* identifier and a non-empty action list when every identifier is well-formed;
\* it returns an error only if some category or action identifier is malformed.
C10_RegisterFailsOnlyOnMalformed ==
    \A f \in running : \A i \in Entries(f) :
        hist[f][i].op = "register" =>
            /\ (NonEmptyActions(RegisteredList(f))
                /\ \A id \in AllIdentifiers(RegisteredList(f)) : WellFormed(id))
                    => (hist[f][i].res = "ok" /\ registered[f] = hist[f][i].cats)
            /\ hist[f][i].res = "err"
                    => \E id \in AllIdentifiers(RegisteredList(f)) : ~WellFormed(id)

C10_Witness ==
    \E f \in running : \E i \in Entries(f) :
        /\ hist[f][i].op = "register"
        /\ hist[f][i].res = "ok"
        /\ Len(RegisteredList(f)) = 2
        /\ NonEmptyActions(RegisteredList(f))
        /\ registered[f] = {ACTION_CATEGORY_ID, TEXT_INPUT_CATEGORY_ID}

HasRegistered(f) == \E i \in Entries(f) : hist[f][i].op = "register"

\* C11: every register the tests make with the list of create_test_categories
\* succeeds, the first and each repeated one, and once any of them has
\* registered, the category set held for the bundle id is the set of that
\* list: a repeated registration leaves it as the first one made it.
C11_RegistrationIdempotent ==
    /\ \A f \in running : \A i \in Entries(f) :
          hist[f][i].op = "register" =>
              /\ RegisteredList(f) = create_test_categories
              /\ hist[f][i].res = "ok"
    /\ (\E f \in running : HasRegistered(f)) =>
          categories = CategoryIds(create_test_categories)
    /\ (\A f \in running : ~HasRegistered(f)) => categories = {}

C11_Witness ==
    \E f \in running : \E g \in running :
        /\ f # g
        /\ HasRegistered(f)
        /\ HasRegistered(g)
        /\ categories = {ACTION_CATEGORY_ID, TEXT_INPUT_CATEGORY_ID}

EndToEndFlows == {"example_test", "test_integration_full_flow"}

ExpectedKey(f) == Prog(f)[VerifyIdx(f)].key

FoundKey(f) == \E i \in 1..Len(active[f]) : HasKey(active[f][i].info, ExpectedKey(f))

Verified(f) == Accepted(f) \/ Rejected(f)

\* C12: in the end-to-end flows (examples/test.rs, test_integration_full_flow)
\* the flow gets past its verification step, and ends with success, only if
\* get_active_notifications returned a handle whose user-info contains the
\* expected key; when the verification ran on handles none of which has the
\* key, the flow is aborted by the assertion at that step and is not in (and,
\* the log of the verification being permanent, never gets to) its success state.
C12_PassOnlyIfKeyFound ==
    \A f \in running :
        f \in EndToEndFlows =>
            /\ (pc[f] > VerifyIdx(f) \/ st[f] = "ok") => Accepted(f) /\ FoundKey(f)
            /\ (Verified(f) /\ ~FoundKey(f)) =>
                  /\ st[f] = "panic"
                  /\ pc[f] = VerifyIdx(f)
                  /\ ~Accepted(f)

C12_Witness ==
    \E f \in running :
        /\ f \in EndToEndFlows
        /\ Len(hist[f]) >= 4
        /\ \A i \in Entries(f) : hist[f][i].res = "ok"
        /\ Len(active[f]) > 0
        /\ ~FoundKey(f)
        /\ st[f] = "panic"

CtrlCIdx(f) == CHOOSE k \in 1..Len(Prog(f)) : Prog(f)[k].op = "ctrl_c"

\* the steps of f before step n that call the manager on this platform
ManagerSteps(f, n) ==
    {k \in 1..(n - 1) : /\ Prog(f)[k].op \in AsyncOps \cup {"register"}
                        /\ Prog(f)[k].guard = "macos" => platform = "macos"}

NoneInFlight(f) ==
    /\ task[f].st = "none"
    /\ \A i \in Entries(f) : Completed(hist[f][i])

SignalReceived(f) == "exit_signal_received" \in log[f]

AllCallsSucceeded(f) == \A i \in Entries(f) : hist[f][i].res = "ok"

\* the first handle with the key maps it to the value
FirstWithKeyHas(handles, key, value) ==
    \E i \in 1..Len(handles) :
        /\ <<key, value>> \in handles[i].info
        /\ \A j \in 1..(i - 1) : ~HasKey(handles[j].info, key)

VerificationOutcome(f) ==
    LET good == FirstWithKeyHas(active[f], "verification_key", "verification_value")
    IN  /\ Verified(f) =>
              /\ AllCallsSucceeded(f)
              /\ Accepted(f) <=> good
              /\ Rejected(f) <=> ~good
              /\ good => pc[f] = Len(Prog(f)) + 1 /\ st[f] \in {"ready", "ok"}
              /\ ~good => pc[f] = VerifyIdx(f) /\ st[f] = "panic"
              /\ ~FoundKey(f) => st[f] = "panic"
        /\ st[f] = "ok" => Accepted(f) /\ good

\* what the run holds of flow g, and what the flows share
StateOf(g) == <<pc[g], st[g], task[g], input[g], bundle[g], registered[g], elapsed[g],
                has_permission[g],
                active[g], hist[g], log[g]>>

Shared == <<categories, delivered, platform, env, running>>

FailureIsLocal(f) ==
    (st[f] # "panic" /\ st'[f] = "panic") =>
        /\ Shared' = Shared
        /\ \A g \in running \ {f} : StateOf(g)' = StateOf(g)

\* C14: test_notification_verification, its manager calls having succeeded,
\* passes exactly when the first returned handle whose user-info has
\* "verification_key" maps it to "verification_value", and fails otherwise, in
\* particular when no handle has the key; the step by which it fails changes
\* nothing of another test or of what the tests share.
C14_VerificationFirstHandle ==
    /\ [](\A f \in running :
              f = "test_notification_verification" => VerificationOutcome(f))
    /\ [][\A f \in running :
              f = "test_notification_verification" => FailureIsLocal(f)]_vars

C14_Witness ==
    \E f \in running : \E g \in running :
        /\ f = "test_notification_verification"
        /\ g # f
        /\ st[f] = "panic"
        /\ AllCallsSucceeded(f)
        /\ FoundKey(f)
        /\ \E i \in 1..Len(active[f]) :
              <<"verification_key", "verification_value">> \in active[f][i].info
        /\ st[g] = "ok"

PermissionErrored(f) ==
    \E i \in Entries(f) : hist[f][i].op = "ask_perm" /\ hist[f][i].res = "err"

PermissionReported(f) == log[f] \cap {"perm_failed", "perm_completed"} # {}

\* C15: in examples/test.rs on macOS, once the flow has reported on a
\* permission request that returned an error, what it reported is the failure
\* ("Permission request failed") and not the completion of the request.
C15_PermissionErrorReportedAsFailure ==
    \A f \in running :
        (f = "example_test" /\ platform = "macos"
            /\ PermissionErrored(f) /\ PermissionReported(f)) =>
                /\ "perm_failed" \in log[f]
                /\ "perm_completed" \notin log[f]

WarningFlows == {"example_active", "example_full"}

Warned(f) == "verify_warn" \in log[f]

\* no handle the enumeration returned is of a notification f sent
NoneOwn(f) == \A i \in 1..Len(active[f]) : active[f][i].sender # f

SendsOf(f) == {i \in Entries(f) : hist[f][i].op = "send"}

\* C16: in test_active_notifications and test_full_integration a returned list
\* holding none of the program's own notifications (an empty one included)
\* only makes the program warn: the check never aborts it, it goes on past the
\* check, test_full_integration goes on to send its completion notification,
\* and the program ends with success; the only way it still ends otherwise is
\* that completion send itself returning an error.
C16_MissingNotificationsOnlyWarn ==
    \A f \in running :
        f \in WarningFlows =>
            /\ st[f] # "panic" /\ ~Rejected(f)
            /\ (pc[f] > VerifyIdx(f) /\ NoneOwn(f)) => Warned(f)
            /\ Warned(f) =>
                  /\ pc[f] > VerifyIdx(f)
                  /\ st[f] = "err" =>
                        /\ f = "example_full"
                        /\ Cardinality(SendsOf(f)) = 3
                        /\ Last(hist[f]).op = "send" /\ Last(hist[f]).res = "err"
                  /\ (st[f] = "ok" /\ f = "example_full") =>
                        /\ Cardinality(SendsOf(f)) = 3
                        /\ Last(hist[f]).op = "send" /\ Last(hist[f]).res = "ok"

C16_Witness ==
    \E f \in running :
        /\ f = "example_full"
        /\ Warned(f)
        /\ Len(active[f]) > 0
        /\ NoneOwn(f)
        /\ st[f] = "ok"
        /\ Cardinality(SendsOf(f)) = 3

\* C17: a get_active_notifications call is issued only when the operation the
\* flow issued before it is a send_notification that has returned success,
\* every earlier operation has returned, no spawned task is alive, and the
\* flow has slept at least 1 second since that send returned.
C17_EnumerateAfterSendAndDelay ==
    \A f \in running :
        /\ \A i \in Entries(f) :
              hist[f][i].op = "get_active" =>
                  /\ i > 1
                  /\ hist[f][i - 1].op = "send"
                  /\ hist[f][i - 1].res = "ok"
                  /\ \A j \in 1..(i - 1) : Completed(hist[f][j])
                  /\ ~Completed(hist[f][i]) => elapsed[f] >= 1 /\ task[f].st = "none"
        /\ (InProgram(f) /\ cur(f).op = "get_active") =>
              /\ elapsed[f] >= 1
              /\ hist[f] # <<>>
              /\ Last(hist[f]).op \in {"send", "get_active"}

C17_Witness ==
    \E f \in running :
        /\ hist[f] # <<>>
        /\ Last(hist[f]).op = "get_active"
        /\ ~Completed(Last(hist[f]))
        /\ hist[f][Len(hist[f]) - 1].by = "task"
        /\ elapsed[f] = 2

OpsOf(f, op) == {i \in Entries(f) : hist[f][i].op = op}

Answered(f, op, val) ==
    \E i \in OpsOf(f, op) : hist[f][i].res = "ok" /\ hist[f][i].val = val

\* C18: test_basic_notification calls send_notification only when
\* get_notification_permission_state returned true or the request that
\* followed it returned true; once the request has returned false the program
\* has ended with success and has sent nothing; and once the state query has
\* returned true the program makes no permission request.
C18_SendOnlyWithPermission ==
    \A f \in running :
        f = "example_basic" =>
            /\ OpsOf(f, "send") # {} =>
                  \/ Answered(f, "query_perm", "true")
                  \/ Answered(f, "ask_perm", "true")
            /\ Answered(f, "ask_perm", "false") =>
                  /\ OpsOf(f, "send") = {}
                  /\ st[f] = "ok"
                  /\ Last(hist[f]).op = "ask_perm"
            /\ Answered(f, "query_perm", "true") => OpsOf(f, "ask_perm") = {}
            /\ OpsOf(f, "ask_perm") # {} => Answered(f, "query_perm", "false")

C18_Witness ==
    \E f \in running :
        /\ f = "example_basic"
        /\ Answered(f, "query_perm", "false")
        /\ Answered(f, "ask_perm", "false")
        /\ st[f] = "ok"
        /\ OpsOf(f, "send") = {}

PermissionFatalFlows == {"example_permission", "example_basic"}

\* C19: in the test_permission_request example (which asks on macOS only) and
\* in the test_basic_notification example, once the permission request has
\* returned an error the program has ended with that error, the request being
\* its last operation: it has issued no send_notification and issues none.
C19_PermissionErrorFatal ==
    \A f \in running :
        (f \in PermissionFatalFlows /\ PermissionErrored(f)) =>
            /\ st[f] = "err"
            /\ pc[f] = PermIdx(f)
            /\ Last(hist[f]).op = "ask_perm"
            /\ Last(hist[f]).res = "err"
            /\ OpsOf(f, "send") = {}
            /\ f = "example_permission" => platform = "macos"

C19_Witness ==
    \E f \in running :
        /\ f = "example_basic"
        /\ PermissionErrored(f)
        /\ Answered(f, "query_perm", "false")
        /\ st[f] = "err"

Outstanding(f) == {i \in Entries(f) : ~Completed(hist[f][i])}

\* C20: of the manager operations a flow has issued at most one has not
\* returned, and it is the one issued last; the main task has no operation of
\* its own in progress while a task it spawned is alive, and it stays at the
\* spawning step, waiting for that task, until the task has ended.
C20_OneOperationOutstanding ==
    \A f \in running :
        /\ Cardinality(Outstanding(f)) <= 1
        /\ Outstanding(f) \subseteq {Len(hist[f])}
        /\ Outstanding(f) # {} <=> (st[f] = "in_op" \/ task[f].st = "in_op")
        /\ task[f].st # "none" =>
              /\ st[f] = "joining"
              /\ Prog(f)[pc[f]] = task[f].step
        /\ st[f] = "joining" => task[f].st # "none"

C20_Witness ==
    \E f \in running :
        /\ task[f].st = "in_op"
        /\ task[f].step.op = "ask_perm"
        /\ st[f] = "joining"
        /\ Outstanding(f) = {Len(hist[f])}
        /\ Len(hist[f]) = 2

\* the operations f issued and the state f's tasks are in
Course(f) == <<pc[f], st[f], task[f], hist[f], log[f], active[f], has_permission[f],
               elapsed[f], registered[f], bundle[f]>>

CallbackStep(f) == responses'[f] # responses[f]

\* C21: the response callback is invoked only after the flow's register has
\* succeeded, it can be invoked while the flow is anywhere past that point, and
\* an invocation leaves the operations the flow issued, the step it is at, its
\* tasks and its outcome, and everything the flows share, as they were.
C21_CallbackOnlyLogs ==
    /\ [](\A f \in running :
              responses[f] > 0 =>
                  \E i \in Entries(f) : hist[f][i].op = "register" /\ hist[f][i].res = "ok")
    /\ [][\A f \in running :
              CallbackStep(f) =>
                  /\ Course(f)' = Course(f)
                  /\ Shared' = Shared
                  /\ \A g \in running \ {f} : StateOf(g)' = StateOf(g)]_vars

C21_Witness ==
    \E f \in running :
        /\ f = "example_interactive"
        /\ responses[f] = 2
        /\ st[f] = "ok"
        /\ Cardinality(OpsOf(f, "send")) = 2

\* C22: in every flow the bundle identifier the manager was created with is a
\* non-empty string, whatever line was read at the prompt and whatever state
\* and value TEST_BUNDLE_ID has.
C22_BundleIdNonEmpty ==
    \A f \in running : Created(f) => Len(bundle[f][1]) > 0

AllFlows == Flows("macos") \cup Flows("linux")

AssertingTests == {"test_notification_verification", "test_integration_full_flow"}

\* the notifications in the centre, or among the handles, that carry key k
Carrying(store, k) == {i \in 1..Len(store) : HasKey(store[i].info, k)}

\* C24: with the tests running together on one bundle id and one store of
\* active notifications, every notification in the store that carries the key
\* an asserting test searches for ("verification_key", "integration_test") was
\* sent by that test, so the handle that satisfies a test's verification is
\* never a notification of a different test.
C24_KeysBelongToOneTest ==
    \A f \in AssertingTests :
        /\ \A i \in Carrying(delivered, ExpectedKey(f)) : delivered[i].sender = f
        /\ f \in running =>
              /\ \A i \in Carrying(active[f], ExpectedKey(f)) : active[f][i].sender = f
              /\ Accepted(f) => Carrying(active[f], ExpectedKey(f)) # {}

C24_Witness ==
    \E f \in running : \E g \in running :
        /\ f \in AssertingTests
        /\ g # f
        /\ bundle[f] = bundle[g]
        /\ Accepted(f)
        /\ \E i \in 1..Len(active[f]) : active[f][i].sender = g

====
